---- MODULE Spec2Model ----
(***************************************************************************)
(* Model of paper_summarizer.py: section detection, TF-IDF extractive       *)
(* summarisation, keyword extraction, the analyze_paper pipeline and the    *)
(* summarize_batch loop.                                                    *)
(*                                                                          *)
(* A Python str is modelled as a sequence of one-character strings, so that *)
(* splitting, stripping, regular-expression matching, lowercasing and       *)
(* tokenising are computed character by character as the code does.         *)
(***************************************************************************)
EXTENDS Integers, Sequences, FiniteSets, TLC

\* ---------------------------------------------------------------------------
\* Characters and character classes (ASCII part of what re / str use)
\* ---------------------------------------------------------------------------

LowerSeq ==
  <<"a","b","c","d","e","f","g","h","i","j","k","l","m",
    "n","o","p","q","r","s","t","u","v","w","x","y","z">>

UpperSeq ==
  <<"A","B","C","D","E","F","G","H","I","J","K","L","M",
    "N","O","P","Q","R","S","T","U","V","W","X","Y","Z">>

LowerCh == {LowerSeq[i] : i \in 1..26}

UpperCh == {UpperSeq[i] : i \in 1..26}

Letter == LowerCh \cup UpperCh

Digit == {"0","1","2","3","4","5","6","7","8","9"}

\* the one character U+212A KELVIN SIGN: not an ASCII letter, and the only
\* character outside ASCII that str.lower() turns into a single ASCII letter
KELVIN_SIGN == "U+212A"

\* \s of the re module, ASCII part
WSCh == {" ", "\n", "\t", "\r", "\f"}

\* \w of the re module, ASCII part and the Kelvin sign
WordCh == Letter \cup Digit \cup {"_", KELVIN_SIGN}

\* str.lower() on one character
LowerOf == [c \in UpperCh |-> LowerSeq[CHOOSE i \in 1..26 : UpperSeq[i] = c]]

UpperOf == [c \in LowerCh |-> UpperSeq[CHOOSE i \in 1..26 : LowerSeq[i] = c]]

lower_char(c) ==
  IF c \in UpperCh THEN LowerOf[c] ELSE IF c = KELVIN_SIGN THEN "k" ELSE c

\* str.lower()
lower(s) == [i \in 1..Len(s) |-> lower_char(s[i])]

\* ---------------------------------------------------------------------------
\* Generic sequence helpers
\* ---------------------------------------------------------------------------

RECURSIVE Flatten(_)
\* concatenation of a sequence of sequences
Flatten(ss) == IF ss = <<>> THEN <<>> ELSE Head(ss) \o Flatten(Tail(ss))

\* a slice that keeps one element even for n = 0
Take_at_least_one(seq, n) ==
  SubSeq(seq, 1, IF n < 1 THEN (IF Len(seq) >= 1 THEN 1 ELSE 0)
                 ELSE IF n < Len(seq) THEN n ELSE Len(seq))

\* seq[:n] for n >= 0
Take(seq, n) == SubSeq(seq, 1, IF n < Len(seq) THEN n ELSE Len(seq))

\* seq[a:b] with 0-based a, b as in Python, 0 <= a <= b <= len
Slice(seq, a, b) == SubSeq(seq, a + 1, b)

Range(seq) == {seq[i] : i \in 1..Len(seq)}

RECURSIVE SortedSeq(_)
\* the elements of a finite set of integers in ascending order
SortedSeq(S) ==
  IF S = {} THEN <<>>
  ELSE LET m == CHOOSE x \in S : \A y \in S : x <= y
       IN <<m>> \o SortedSeq(S \ {m})

\* ---------------------------------------------------------------------------
\* str.split("\n"), "\n".join, str.strip
\* ---------------------------------------------------------------------------

\* the pieces of s around separators, given as the ascending sequence of the
\* <<first, last>> positions each separator occupies
Pieces(s, seps) ==
  [k \in 1..(Len(seps) + 1) |->
     SubSeq(s, IF k = 1 THEN 1 ELSE seps[k - 1][2] + 1,
               IF k > Len(seps) THEN Len(s) ELSE seps[k][1] - 1)]

\* str.split("\n")
split_nl(s) ==
  LET nl == SortedSeq({i \in 1..Len(s) : s[i] = "\n"})
  IN Pieces(s, [k \in 1..Len(nl) |-> <<nl[k], nl[k]>>])

RECURSIVE join_nl(_)
\* "\n".join(lines)
join_nl(lines) ==
  IF lines = <<>> THEN <<>>
  ELSE IF Len(lines) = 1 THEN lines[1]
  ELSE lines[1] \o <<"\n">> \o join_nl(Tail(lines))

\* str.strip(): drop leading and trailing whitespace
strip(s) ==
  LET nonws == {i \in 1..Len(s) : s[i] \notin WSCh}
  IN IF nonws = {} THEN <<>>
     ELSE SubSeq(s, CHOOSE i \in nonws : \A j \in nonws : i <= j,
                    CHOOSE i \in nonws : \A j \in nonws : i >= j)

\* ---------------------------------------------------------------------------
\* Regular expressions: a pattern is a tree, re.match is the set of positions
\* the pattern can end at when started at position 1
\* ---------------------------------------------------------------------------

Cls(cs) == [t |-> "set", cs |-> cs]

Cat(rs) == [t |-> "cat", rs |-> rs]

Opt(r) == [t |-> "opt", r |-> r]

Star(r) == [t |-> "star", r |-> r]

Plus(r) == [t |-> "plus", r |-> r]

\* \b
WB == [t |-> "wb"]

\* \d
D == Cls(Digit)

\* \s
WS == Cls(WSCh)

\* one letter under (?i): either case, and for k the Kelvin sign
CI(c) ==
  Cls({c, IF c \in LowerCh THEN UpperOf[c] ELSE c}
      \cup (IF c = "k" THEN {KELVIN_SIGN} ELSE {}))

\* a literal word under (?i)
Kw(w) == Cat([i \in 1..Len(w) |-> CI(w[i])])

\* (?:\d+\.?\s*)?
NumPrefix == Opt(Cat(<<Plus(D), Opt(Cls({"."})), Star(WS)>>))

is_word_at(s, p) == p >= 1 /\ p <= Len(s) /\ s[p] \in WordCh

RECURSIVE Ends(_, _, _)
\* positions (index of the next unread character) at which r can stop when
\* started at any position of P
Ends(r, s, P) ==
  IF P = {} THEN {}
  ELSE CASE r.t = "set" ->
              {p + 1 : p \in {q \in P : q <= Len(s) /\ s[q] \in r.cs}}
         [] r.t = "cat" ->
              IF r.rs = <<>> THEN P
              ELSE Ends(Cat(Tail(r.rs)), s, Ends(Head(r.rs), s, P))
         [] r.t = "opt" -> P \cup Ends(r.r, s, P)
         [] r.t = "star" ->
              LET Q == Ends(r.r, s, P)
              IN IF Q \subseteq P THEN P ELSE Ends(r, s, P \cup Q)
         [] r.t = "plus" -> Ends(Star(r.r), s, Ends(r.r, s, P))
         [] r.t = "wb" ->
              {p \in P : is_word_at(s, p - 1) # is_word_at(s, p)}

\* re.match(pattern, s) is not None
re_match(r, s) == Ends(r, s, {1}) # {}

\* ---------------------------------------------------------------------------
\* Constants of the module
\* ---------------------------------------------------------------------------

\* ordered (pattern, canonical name) pairs; all patterns are (?i)^...
SECTION_PATTERNS ==
  <<
    <<Cat(<<NumPrefix, Kw(<<"a","b","s","t","r","a","c","t">>), WB>>),
      "Abstract">>,
    <<Cat(<<NumPrefix, Kw(<<"i","n","t","r","o","d","u","c","t","i","o","n">>), WB>>),
      "Introduction">>,
    <<Cat(<<NumPrefix, Kw(<<"b","a","c","k","g","r","o","u","n","d">>), WB>>),
      "Background">>,
    <<Cat(<<NumPrefix, Opt(Cat(<<Kw(<<"m","a","t","e","r","i","a","l">>), Opt(CI("s")), Plus(WS), Kw(<<"a","n","d">>), Plus(WS)>>)), Kw(<<"m","e","t","h","o","d">>), Opt(CI("s")), WB>>),
      "Methods">>,
    <<Cat(<<NumPrefix, Kw(<<"e","x","p","e","r","i","m","e","n","t","a","l">>), WB>>),
      "Methods">>,
    <<Cat(<<NumPrefix, Kw(<<"r","e","s","u","l","t">>), Opt(CI("s")), WB>>),
      "Results">>,
    <<Cat(<<NumPrefix, Kw(<<"r","e","s","u","l","t">>), Opt(CI("s")), Plus(WS), Kw(<<"a","n","d">>), Plus(WS), Kw(<<"d","i","s","c","u","s","s","i","o","n">>), WB>>),
      "Results and Discussion">>,
    <<Cat(<<NumPrefix, Kw(<<"d","i","s","c","u","s","s","i","o","n">>), WB>>),
      "Discussion">>,
    <<Cat(<<NumPrefix, Kw(<<"c","o","n","c","l","u","s","i","o","n">>), Opt(CI("s")), WB>>),
      "Conclusion">>,
    <<Cat(<<NumPrefix, Kw(<<"s","u","m","m","a","r","y">>), WB>>),
      "Summary">>,
    <<Cat(<<NumPrefix, Kw(<<"a","c","k","n","o","w","l","e","d","g">>), Opt(CI("e")), Kw(<<"m","e","n","t">>), Opt(CI("s")), WB>>),
      "Acknowledgements">>,
    <<Cat(<<NumPrefix, Kw(<<"r","e","f","e","r","e","n","c","e">>), Opt(CI("s")), WB>>),
      "References">>,
    <<Cat(<<NumPrefix, Kw(<<"s","u","p","p","l","e","m","e","n","t","a","r","y">>), WB>>),
      "Supplementary">>,
    <<Cat(<<NumPrefix, Kw(<<"f","u","n","d","i","n","g">>), WB>>),
      "Funding">>,
    <<Cat(<<NumPrefix, Kw(<<"a","u","t","h","o","r">>), Plus(WS), Kw(<<"c","o","n","t","r","i","b","u","t","i","o","n">>), Opt(CI("s")), WB>>),
      "Author Contributions">>,
    <<Cat(<<NumPrefix, Kw(<<"c","o","m","p","e","t","i","n","g">>), Plus(WS), Kw(<<"i","n","t","e","r","e","s","t">>), Opt(CI("s")), WB>>),
      "Competing Interests">>,
    <<Cat(<<NumPrefix, Kw(<<"d","a","t","a">>), Plus(WS), Kw(<<"a","v","a","i","l","a","b","i","l","i","t","y">>), WB>>),
      "Data Availability">>
  >>

SKIP_SECTIONS ==
  {"References", "Acknowledgements", "Supplementary", "Funding",
   "Author Contributions", "Competing Interests", "Data Availability"}

STOP_WORDS ==
  {
    <<"a">>, <<"a","n">>, <<"t","h","e">>,
    <<"a","n","d">>, <<"o","r">>, <<"b","u","t">>,
    <<"i","n">>, <<"o","n">>, <<"a","t">>,
    <<"t","o">>, <<"f","o","r">>, <<"o","f">>,
    <<"w","i","t","h">>, <<"b","y">>, <<"f","r","o","m">>,
    <<"i","s">>, <<"a","r","e">>, <<"w","a","s">>,
    <<"w","e","r","e">>, <<"b","e">>, <<"b","e","e","n">>,
    <<"b","e","i","n","g">>, <<"h","a","v","e">>, <<"h","a","s">>,
    <<"h","a","d">>, <<"d","o">>, <<"d","o","e","s">>,
    <<"d","i","d">>, <<"w","i","l","l">>, <<"w","o","u","l","d">>,
    <<"c","o","u","l","d">>, <<"s","h","o","u","l","d">>, <<"m","a","y">>,
    <<"m","i","g","h","t">>, <<"s","h","a","l","l">>, <<"c","a","n">>,
    <<"t","h","i","s">>, <<"t","h","a","t">>, <<"t","h","e","s","e">>,
    <<"t","h","o","s","e">>, <<"i","t">>, <<"i","t","s">>,
    <<"n","o","t">>, <<"n","o">>, <<"n","o","r">>,
    <<"a","s">>, <<"i","f">>, <<"t","h","a","n">>,
    <<"s","o">>, <<"s","u","c","h">>, <<"w","h","e","n">>,
    <<"w","h","e","r","e">>, <<"w","h","i","c","h">>, <<"w","h","o">>,
    <<"w","h","o","m">>, <<"w","h","a","t">>, <<"h","o","w">>,
    <<"a","l","l">>, <<"e","a","c","h">>, <<"b","o","t","h">>,
    <<"m","o","r","e">>, <<"m","o","s","t">>, <<"o","t","h","e","r">>,
    <<"s","o","m","e">>, <<"a","n","y">>, <<"i","n","t","o">>,
    <<"t","h","r","o","u","g","h">>, <<"d","u","r","i","n","g">>, <<"b","e","f","o","r","e">>,
    <<"a","f","t","e","r">>, <<"a","b","o","v","e">>, <<"b","e","l","o","w">>,
    <<"b","e","t","w","e","e","n">>, <<"a","l","s","o">>, <<"v","e","r","y">>,
    <<"o","f","t","e","n">>, <<"h","o","w","e","v","e","r">>, <<"f","u","r","t","h","e","r">>,
    <<"t","h","e","n">>, <<"h","e","r","e">>, <<"t","h","e","r","e">>,
    <<"a","b","o","u","t">>, <<"u","p">>, <<"o","u","t">>,
    <<"o","v","e","r">>, <<"u","n","d","e","r">>, <<"a","g","a","i","n">>,
    <<"o","n","c","e">>, <<"o","u","r">>, <<"w","e">>,
    <<"t","h","e","y">>, <<"t","h","e","i","r">>, <<"t","h","e","m">>,
    <<"h","e">>, <<"s","h","e">>, <<"h","i","s">>,
    <<"h","e","r">>, <<"y","o","u">>, <<"y","o","u","r">>
  }

\* ---------------------------------------------------------------------------
\* _split_sentences
\* ---------------------------------------------------------------------------

\* re.sub(r"C+", " ", s) for a character class C: every maximal run of
\* characters of C becomes one space
sub_runs(s, C) ==
  LET kept == SelectSeq([i \in 1..Len(s) |-> i],
                        LAMBDA i : s[i] \notin C \/ i = 1 \/ s[i - 1] \notin C)
  IN [k \in 1..Len(kept) |-> IF s[kept[k]] \in C THEN " " ELSE s[kept[k]]]

SentenceEnd == {".", "!", "?"}

\* a match of (?<=[.!?])\s+(?=[A-Z]) starts at i: position i opens a run of
\* whitespace that follows . ! or ? and the run is followed by an uppercase
\* letter; the value is the last position of the run, 0 when there is no match
split_match_end(s, i) ==
  IF i > 1 /\ i <= Len(s) /\ s[i] \in WSCh /\ s[i - 1] \in SentenceEnd
  THEN LET stop == {j \in i..Len(s) : j = Len(s) \/ s[j + 1] \notin WSCh}
           j == CHOOSE k \in stop : \A m \in stop : k <= m
       IN IF j < Len(s) /\ s[j + 1] \in UpperCh THEN j ELSE 0
  ELSE 0

\* re.split(r"(?<=[.!?])\s+(?=[A-Z])", s)
re_split_sentences(s) ==
  LET starts == SortedSeq({i \in 1..Len(s) : split_match_end(s, i) > 0})
  IN Pieces(s, [k \in 1..Len(starts) |->
                  <<starts[k], split_match_end(s, starts[k])>>])

\* minimum length (exclusive) of a kept sentence
MIN_SENTENCE_LEN == 10

split_sentences(text) ==
  LET t1 == sub_runs(text, {"\n"})
      t2 == strip(sub_runs(t1, WSCh))
      parts == re_split_sentences(t2)
      kept == SelectSeq(parts, LAMBDA p : Len(strip(p)) > MIN_SENTENCE_LEN)
  IN [i \in 1..Len(kept) |-> strip(kept[i])]

\* ---------------------------------------------------------------------------
\* _tokenize
\* ---------------------------------------------------------------------------

\* minimum length of a token: the {2,} of the pattern
MIN_TOKEN_LEN == 2

\* re.findall(r"[a-zA-Z]{2,}", s): the maximal runs of letters, left to
\* right, that have at least MIN_TOKEN_LEN letters
findall_words(s) ==
  LET first == SortedSeq({i \in 1..Len(s) :
                 s[i] \in Letter /\ (i = 1 \/ s[i - 1] \notin Letter)})
      last == SortedSeq({i \in 1..Len(s) :
                 s[i] \in Letter /\ (i = Len(s) \/ s[i + 1] \notin Letter)})
      runs == [k \in 1..Len(first) |-> SubSeq(s, first[k], last[k])]
  IN SelectSeq(runs, LAMBDA w : Len(w) >= MIN_TOKEN_LEN)

\* _tokenize without the stopword filter
tokenize_keep_stopwords(text) == findall_words(lower(text))

tokenize(text) ==
  SelectSeq(findall_words(lower(text)), LAMBDA w : w \notin STOP_WORDS)

\* ---------------------------------------------------------------------------
\* dict: a sequence of <<key, value>> pairs in insertion order
\* ---------------------------------------------------------------------------

Keys(d) == [i \in 1..Len(d) |-> d[i][1]]

HasKey(d, k) == \E i \in 1..Len(d) : d[i][1] = k

\* d.get(k, default)
Get(d, k, default) ==
  IF HasKey(d, k) THEN d[CHOOSE i \in 1..Len(d) : d[i][1] = k][2] ELSE default

\* the mapping a dict denotes, insertion order forgotten
AsMap(d) == {<<d[i][1], d[i][2]>> : i \in 1..Len(d)}

RECURSIVE count_words(_, _)
\* Counter(words): keys in order of first occurrence
count_words(words, d) ==
  IF words = <<>> THEN d
  ELSE LET w == Head(words)
       IN count_words(Tail(words),
            IF HasKey(d, w)
            THEN [i \in 1..Len(d) |->
                    IF d[i][1] = w THEN <<w, d[i][2] + 1>> ELSE d[i]]
            ELSE Append(d, <<w, 1>>))

\* ---------------------------------------------------------------------------
\* _compute_tf, _compute_idf
\* A float is modelled as a fraction <<numerator, denominator>> with a positive
\* denominator, and math.log is tabulated in units of 1/100000. Arithmetic
\* on the fractions is exact: the rounding of float operations is not
\* modelled, so the model can see a tie between two scores where the code
\* sees two floats one rounding error apart.
\* ---------------------------------------------------------------------------

\* tf: dict word -> <<count, total>>, i.e. count / total
compute_tf(words) ==
  LET counter == count_words(words, <<>>)
      total == Len(words)
  IN IF total = 0 THEN <<>>
     ELSE [i \in 1..Len(counter) |-> <<counter[i][1], <<counter[i][2], total>>>>]

\* LnTable[n][d] = round(100000 * ln(n / d)), for n in 1..12 and d in 1..13
LnTable ==
  <<
      <<0, -69315, -109861, -138629, -160944, -179176, -194591, -207944, -219722, -230259, -239790, -248491, -256495>>,
      <<69315, 0, -40547, -69315, -91629, -109861, -125276, -138629, -150408, -160944, -170475, -179176, -187180>>,
      <<109861, 40547, 0, -28768, -51083, -69315, -84730, -98083, -109861, -120397, -129928, -138629, -146634>>,
      <<138629, 69315, 28768, 0, -22314, -40547, -55962, -69315, -81093, -91629, -101160, -109861, -117865>>,
      <<160944, 91629, 51083, 22314, 0, -18232, -33647, -47000, -58779, -69315, -78846, -87547, -95551>>,
      <<179176, 109861, 69315, 40547, 18232, 0, -15415, -28768, -40547, -51083, -60614, -69315, -77319>>,
      <<194591, 125276, 84730, 55962, 33647, 15415, 0, -13353, -25131, -35667, -45199, -53900, -61904>>,
      <<207944, 138629, 98083, 69315, 47000, 28768, 13353, 0, -11778, -22314, -31845, -40547, -48551>>,
      <<219722, 150408, 109861, 81093, 58779, 40547, 25131, 11778, 0, -10536, -20067, -28768, -36772>>,
      <<230259, 160944, 120397, 91629, 69315, 51083, 35667, 22314, 10536, 0, -9531, -18232, -26236>>,
      <<239790, 170475, 129928, 101160, 78846, 60614, 45199, 31845, 20067, 9531, 0, -8701, -16705>>,
      <<248491, 179176, 138629, 109861, 87547, 69315, 53900, 40547, 28768, 18232, 8701, 0, -8004>>
    >>

\* math.log(n_docs / (1 + count))
math_log_ratio(n_docs, d) == LnTable[n_docs][d]

\* set iteration orders a call can see
Orders == {0, 1}

\* set(doc) without the deduplication: every occurrence is enumerated
set_iter_with_repeats(doc, order) ==
  IF order = 0 THEN doc ELSE [i \in 1..Len(doc) |-> doc[Len(doc) + 1 - i]]

\* iteration order of set(doc): the language does not fix it for str elements
\* (hash randomisation), so every call of _compute_idf may see any of Orders;
\* order 0 enumerates by first occurrence, order 1 in the reverse
set_iter(doc, order) ==
  LET ks == Keys(count_words(doc, <<>>))
  IN IF order = 0 THEN ks ELSE [i \in 1..Len(ks) |-> ks[Len(ks) + 1 - i]]

RECURSIVE df_add(_, _)
\* for w in unique_words: df[w] += 1
df_add(df, ws) ==
  IF ws = <<>> THEN df
  ELSE LET w == Head(ws)
       IN df_add(IF HasKey(df, w)
                 THEN [i \in 1..Len(df) |->
                         IF df[i][1] = w THEN <<w, df[i][2] + 1>> ELSE df[i]]
                 ELSE Append(df, <<w, 1>>),
                 Tail(ws))

RECURSIVE df_all(_, _, _)
df_all(documents, order, df) ==
  IF documents = <<>> THEN df
  ELSE df_all(Tail(documents), order, df_add(df, set_iter(Head(documents), order)))

\* idf: dict word -> scaled logarithm
compute_idf(documents, order) ==
  LET n_docs == Len(documents)
      df == df_all(documents, order, <<>>)
  IN IF n_docs = 0 THEN <<>>
     ELSE [i \in 1..Len(df) |-> <<df[i][1], math_log_ratio(n_docs, 1 + df[i][2])>>]

\* ---------------------------------------------------------------------------
\* _score_sentences, summarize_section
\* ---------------------------------------------------------------------------

\* a < b for fractions with positive denominators
FracLess(a, b) == a[1] * b[2] < b[1] * a[2]

RECURSIVE sum_tfidf(_, _, _)
\* sum(tf.get(w, 0) * idf.get(w, 0) for w in tf), all tf values over one total
sum_tfidf(tf, idf, i) ==
  IF i > Len(tf) THEN 0
  ELSE tf[i][2][1] * Get(idf, tf[i][1], 0) + sum_tfidf(tf, idf, i + 1)

RECURSIVE insert_by_score_desc_before_ties(_, _)
\* variant: x goes in front of the elements of equal score
insert_by_score_desc_before_ties(sorted, x) ==
  IF sorted = <<>> THEN <<x>>
  ELSE IF ~FracLess(x.score, Head(sorted).score)
       THEN <<x>> \o sorted
       ELSE <<Head(sorted)>> \o insert_by_score_desc_before_ties(Tail(sorted), x)

\* insert x behind every element whose score is not lower: list.sort is stable
RECURSIVE insert_by_score_desc(_, _)
insert_by_score_desc(sorted, x) ==
  IF sorted = <<>> THEN <<x>>
  ELSE IF FracLess(Head(sorted).score, x.score)
       THEN <<x>> \o sorted
       ELSE <<Head(sorted)>> \o insert_by_score_desc(Tail(sorted), x)

RECURSIVE sort_by_score_desc(_, _)
\* list.sort(key=lambda x: -x[0])
sort_by_score_desc(xs, acc) ==
  IF xs = <<>> THEN acc
  ELSE sort_by_score_desc(Tail(xs), insert_by_score_desc(acc, Head(xs)))

RECURSIVE insert_by_index(_, _)
insert_by_index(sorted, x) ==
  IF sorted = <<>> THEN <<x>>
  ELSE IF x.idx < Head(sorted).idx
       THEN <<x>> \o sorted
       ELSE <<Head(sorted)>> \o insert_by_index(Tail(sorted), x)

RECURSIVE sort_by_index(_, _)
\* list.sort(key=lambda x: x[1])
sort_by_index(xs, acc) ==
  IF xs = <<>> THEN acc
  ELSE sort_by_index(Tail(xs), insert_by_index(acc, Head(xs)))

RECURSIVE score_loop_zero_for_empty(_, _, _)
\* variant: a sentence without tokens is scored 0 instead of being skipped
score_loop_zero_for_empty(sentences, idf, i) ==
  IF i > Len(sentences) THEN <<>>
  ELSE LET words == tokenize(sentences[i])
           tf == compute_tf(words)
       IN <<[score |-> IF words = <<>> THEN <<0, 1>>
                       ELSE <<sum_tfidf(tf, idf, 1), Len(words)>>,
             idx |-> i - 1,
             sent |-> sentences[i]]>>
          \o score_loop_zero_for_empty(sentences, idf, i + 1)

RECURSIVE score_loop(_, _, _)
\* the loop of _score_sentences; idx is the 0-based index of enumerate
score_loop(sentences, idf, i) ==
  IF i > Len(sentences) THEN <<>>
  ELSE LET words == tokenize(sentences[i])
           tf == compute_tf(words)
       IN (IF words = <<>> THEN <<>>
           ELSE <<[score |-> <<sum_tfidf(tf, idf, 1), Len(words)>>,
                   idx |-> i - 1,
                   sent |-> sentences[i]]>>)
          \o score_loop(sentences, idf, i + 1)

score_sentences(sentences, idf) ==
  sort_by_score_desc(score_loop(sentences, idf, 1), <<>>)

\* variant: the slice stops one sentence early
summarize_top_one_short(sentences, idf, max_sentences) ==
  IF sentences = <<>> THEN <<>>
  ELSE sort_by_index(Take(score_sentences(sentences, idf), max_sentences - 1), <<>>)

\* variant: the selected sentences are left in score order
summarize_top_score_order(sentences, idf, max_sentences) ==
  IF sentences = <<>> THEN <<>>
  ELSE Take(score_sentences(sentences, idf), max_sentences)

\* the (score, index, sentence) triples summarize_section keeps, in the
\* order it returns them
summarize_top(sentences, idf, max_sentences) ==
  IF sentences = <<>> THEN <<>>
  ELSE sort_by_index(Take(score_sentences(sentences, idf), max_sentences), <<>>)

summarize_section(section, idf, max_sentences) ==
  LET top_n == summarize_top(section.sentences, idf, max_sentences)
  IN [i \in 1..Len(top_n) |-> top_n[i].sent]

\* ---------------------------------------------------------------------------
\* extract_keywords
\* ---------------------------------------------------------------------------

RECURSIVE insert_kw_desc_before_ties(_, _)
\* variant: x goes in front of the items of equal score
insert_kw_desc_before_ties(sorted, x) ==
  IF sorted = <<>> THEN <<x>>
  ELSE IF ~FracLess(x[2], Head(sorted)[2])
       THEN <<x>> \o sorted
       ELSE <<Head(sorted)>> \o insert_kw_desc_before_ties(Tail(sorted), x)

\* insert x behind every item whose score is not lower: sorted is stable
RECURSIVE insert_kw_desc(_, _)
insert_kw_desc(sorted, x) ==
  IF sorted = <<>> THEN <<x>>
  ELSE IF FracLess(Head(sorted)[2], x[2])
       THEN <<x>> \o sorted
       ELSE <<Head(sorted)>> \o insert_kw_desc(Tail(sorted), x)

RECURSIVE sort_kw_desc(_, _)
\* sorted(tfidf_scores.items(), key=lambda x: -x[1])
sort_kw_desc(xs, acc) ==
  IF xs = <<>> THEN acc
  ELSE sort_kw_desc(Tail(xs), insert_kw_desc(acc, Head(xs)))

\* the IDF extract_keywords computes for itself
keyword_idf(raw_text, order) ==
  LET sentences == split_sentences(raw_text)
      docs == [i \in 1..Len(sentences) |-> tokenize(sentences[i])]
  IN compute_idf(docs, order)

\* variant: the comprehension runs over the keys of idf
tfidf_scores_idf_order(tf, idf) ==
  LET ks == SelectSeq(Keys(idf), LAMBDA w : HasKey(tf, w))
  IN [i \in 1..Len(ks) |->
        <<ks[i], <<Get(tf, ks[i], <<0, 1>>)[1] * Get(idf, ks[i], 0),
                   Get(tf, ks[i], <<0, 1>>)[2]>>>>]

\* {w: tf.get(w, 0) * idf.get(w, 0) for w in tf}: keys in the order of tf
tfidf_scores(tf, idf) ==
  [i \in 1..Len(tf) |->
     <<tf[i][1], <<tf[i][2][1] * Get(idf, tf[i][1], 0), tf[i][2][2]>>>>]

\* variant: the slice keeps one term too many
extract_keywords_off_by_one(raw_text, top_n, order) ==
  LET idf == keyword_idf(raw_text, order)
      tf == compute_tf(tokenize(raw_text))
      sorted_words == sort_kw_desc(tfidf_scores(tf, idf), <<>>)
  IN Keys(Take(sorted_words, top_n + 1))

extract_keywords(raw_text, top_n, order) ==
  LET idf == keyword_idf(raw_text, order)
      tf == compute_tf(tokenize(raw_text))
      sorted_words == sort_kw_desc(tfidf_scores(tf, idf), <<>>)
  IN Keys(Take(sorted_words, top_n))

\* ---------------------------------------------------------------------------
\* _detect_sections, _estimate_title
\* ---------------------------------------------------------------------------

\* indices of the patterns a stripped line matches
matching_patterns(stripped) ==
  {k \in 1..Len(SECTION_PATTERNS) : re_match(SECTION_PATTERNS[k][1], stripped)}

is_heading(stripped) == matching_patterns(stripped) # {}

\* the inner loop with its break: the name of the first pattern that matches
first_match_name(stripped) ==
  LET ms == matching_patterns(stripped)
  IN SECTION_PATTERNS[CHOOSE k \in ms : \A m \in ms : k <= m][2]

RECURSIVE find_breaks_nobreak(_, _)
\* variant: the inner loop does not stop at the first pattern that matches
find_breaks_nobreak(lines, i) ==
  IF i > Len(lines) THEN <<>>
  ELSE LET stripped == strip(lines[i])
           ms == IF stripped # <<>> THEN SortedSeq(matching_patterns(stripped))
                 ELSE <<>>
       IN [k \in 1..Len(ms) |-> <<i - 1, SECTION_PATTERNS[ms[k]][2]>>]
          \o find_breaks_nobreak(lines, i + 1)

RECURSIVE find_breaks(_, _)
\* section_breaks: <<0-based line index, name>> for every line that, stripped,
\* is not empty and matches a pattern
find_breaks(lines, i) ==
  IF i > Len(lines) THEN <<>>
  ELSE LET stripped == strip(lines[i])
       IN (IF stripped # <<>> /\ is_heading(stripped)
           THEN <<<<i - 1, first_match_name(stripped)>>>>
           ELSE <<>>)
          \o find_breaks(lines, i + 1)

\* variant: the heading line is cut off the section text
PaperSection_without_heading(name, text) ==
  LET body == join_nl(Tail(split_nl(text)))
  IN [name |-> name, text |-> body, sentences |-> split_sentences(body),
      summary_sentences |-> <<>>]

PaperSection(name, text) ==
  [name |-> name, text |-> text, sentences |-> split_sentences(text),
   summary_sentences |-> <<>>]

\* variant: no section at all when no heading is found
detect_sections_no_fallback(raw_text) ==
  LET lines == split_nl(raw_text)
      section_breaks == find_breaks(lines, 1)
  IN [idx \in 1..Len(section_breaks) |->
        LET line_no == section_breaks[idx][1]
            end_line == IF idx + 1 <= Len(section_breaks)
                        THEN section_breaks[idx + 1][1]
                        ELSE Len(lines)
        IN PaperSection(section_breaks[idx][2],
                        join_nl(Slice(lines, line_no, end_line)))]

detect_sections(raw_text) ==
  LET lines == split_nl(raw_text)
      section_breaks == find_breaks(lines, 1)
  IN IF section_breaks = <<>>
     THEN <<PaperSection("Full Text", join_nl(lines))>>
     ELSE [idx \in 1..Len(section_breaks) |->
             LET line_no == section_breaks[idx][1]
                 end_line == IF idx + 1 <= Len(section_breaks)
                             THEN section_breaks[idx + 1][1]
                             ELSE Len(lines)
             IN PaperSection(section_breaks[idx][2],
                             join_nl(Slice(lines, line_no, end_line)))]

\* the sentinel returned for a text without a non-empty line
UNKNOWN_TITLE == <<"(unknown title)">>

TITLE_SCAN_LINES == 15

TITLE_MIN_LEN == 10

TITLE_MAX_CANDIDATES == 3

RECURSIVE title_candidates(_, _, _)
\* the candidate loop of _estimate_title with its two breaks
title_candidates(lines, i, candidates) ==
  IF i > Len(lines) THEN candidates
  ELSE IF is_heading(lines[i]) THEN candidates
  ELSE LET c2 == IF Len(lines[i]) > TITLE_MIN_LEN
                 THEN Append(candidates, lines[i]) ELSE candidates
       IN IF Len(c2) >= TITLE_MAX_CANDIDATES THEN c2
          ELSE title_candidates(lines, i + 1, c2)

estimate_title(raw_text) ==
  LET head == Take(split_nl(raw_text), TITLE_SCAN_LINES)
      nonblank == SelectSeq(head, LAMBDA ln : strip(ln) # <<>>)
      lines == [i \in 1..Len(nonblank) |-> strip(nonblank[i])]
      candidates == title_candidates(lines, 1, <<>>)
  IN IF lines = <<>> THEN UNKNOWN_TITLE
     ELSE IF candidates = <<>> THEN lines[1]
     ELSE candidates[1]

\* ---------------------------------------------------------------------------
\* Files and extract_text_from_pdf
\* A file is [path, exists, readable, pages]: pages holds what
\* page.extract_text() gives for each page; readable is FALSE when PdfReader
\* raises on the file.
\* ---------------------------------------------------------------------------

\* characters of file names in ascending code order, for sorted()
CharOrder ==
  <<".">> \o <<"0","1","2","3","4","5","6","7","8","9">> \o UpperSeq
  \o <<"_">> \o LowerSeq

ord(c) == CHOOSE i \in 1..Len(CharOrder) : CharOrder[i] = c

\* a < b for str
StrLess(a, b) ==
  \E k \in 1..(Len(a) + 1) :
     /\ k <= Len(b)
     /\ \A j \in 1..(k - 1) : a[j] = b[j]
     /\ (k = Len(a) + 1 \/ ord(a[k]) < ord(b[k]))

\* Path.suffix: the name from its last dot on, "" when there is none
suffix(path) ==
  LET dots == {i \in 2..Len(path) : path[i] = "."}
  IN IF dots = {} THEN <<>>
     ELSE SubSeq(path, CHOOSE i \in dots : \A j \in dots : i >= j, Len(path))

PDF_SUFFIX == <<".","p","d","f">>

\* the outcome of extract_text_from_pdf: an exception or (text, total_pages)
extract_text_from_pdf(f) ==
  IF ~f.exists
  THEN [raised |-> "FileNotFoundError", text |-> <<>>, total_pages |-> 0]
  ELSE IF lower(suffix(f.path)) # PDF_SUFFIX
  THEN [raised |-> "ValueError", text |-> <<>>, total_pages |-> 0]
  ELSE IF ~f.readable
  THEN [raised |-> "PdfReadError", text |-> <<>>, total_pages |-> 0]
  ELSE [raised |-> "none",
        text |-> join_nl(SelectSeq(f.pages, LAMBDA t : t # <<>>)),
        total_pages |-> Len(f.pages)]

\* ---------------------------------------------------------------------------
\* analyze_paper, step by step
\* ---------------------------------------------------------------------------

\* all_sentences of analyze_paper
all_sentences(secs) == Flatten([k \in 1..Len(secs) |-> secs[k].sentences])

\* all_docs of analyze_paper
all_docs(secs) ==
  LET ss == all_sentences(secs)
  IN [j \in 1..Len(ss) |-> tokenize(ss[j])]

\* the 0-based indices, in section.sentences, of the sentences
\* summarize_section returns, in the order it returns them
picked_indices(section, idf_map, max_sentences) ==
  LET top_n == summarize_top(section.sentences, idf_map, max_sentences)
  IN [i \in 1..Len(top_n) |-> top_n[i].idx]

\* variant: the skip-set test is missing
summarize_step_noskip(sec, idf_map, max_sentences) ==
  [sec |-> [sec EXCEPT !.summary_sentences =
                summarize_section(sec, idf_map, max_sentences)],
   called |-> TRUE, idf |-> idf_map,
   picked |-> picked_indices(sec, idf_map, max_sentences)]

\* variant: every section is scored with an IDF of its own sentences
summarize_step_local_idf(sec, idf_map, max_sentences) ==
  LET own == compute_idf([j \in 1..Len(sec.sentences) |->
                            tokenize(sec.sentences[j])], 0)
  IN IF sec.name \notin SKIP_SECTIONS
     THEN [sec |-> [sec EXCEPT !.summary_sentences =
                        summarize_section(sec, own, max_sentences)],
           called |-> TRUE, idf |-> own,
           picked |-> picked_indices(sec, own, max_sentences)]
     ELSE [sec |-> sec, called |-> FALSE, idf |-> <<>>, picked |-> <<>>]

\* one iteration of the summarising loop: the section as the loop leaves it,
\* and whether summarize_section was called, with which IDF mapping and which
\* sentences it picked
summarize_step(sec, idf_map, max_sentences) ==
  IF sec.name \notin SKIP_SECTIONS
  THEN [sec |-> [sec EXCEPT !.summary_sentences =
                     summarize_section(sec, idf_map, max_sentences)],
        called |-> TRUE, idf |-> idf_map,
        picked |-> picked_indices(sec, idf_map, max_sentences)]
  ELSE [sec |-> sec, called |-> FALSE, idf |-> <<>>, picked |-> <<>>]

VARIABLES
  file,                   \* the PDF file analyze_paper is called on
  sentences_per_section,  \* configuration
  num_keywords,           \* configuration
  pc,                     \* position in analyze_paper
  raw_text, total_pages, title, sections, idf, sec_i, keywords,
  paper,                  \* the PaperInfo returned
  calls,                  \* history: per section, the call of summarize_section
  kw_idf,                 \* history: the IDF extract_keywords ranked with
  run, first,             \* a second call on the same input, and the first result
  pdf_dir, pdf_files, batch_i, results, bpc,   \* summarize_batch
  attempted,              \* history: indices of the files the loop has tried
  documents,              \* the corpus _compute_idf is called on
  tok_in, tok_out         \* the string _tokenize is called on, and its result

paper_vars ==
  <<pc, raw_text, total_pages, title, sections, idf, sec_i, keywords, paper,
    calls, kw_idf>>

input_vars == <<file, sentences_per_section, num_keywords>>

rerun_vars == <<run, first>>

batch_vars == <<pdf_dir, pdf_files, batch_i, results, bpc, attempted>>

fn_vars == <<documents, tok_in, tok_out>>

vars == <<input_vars, paper_vars, rerun_vars, batch_vars, fn_vars>>

NoPaper == [file_path |-> <<>>, title |-> <<>>, total_pages |-> 0,
            raw_text |-> <<>>, sections |-> <<>>, keywords |-> <<>>]

NoFirst == [paper |-> NoPaper, idf |-> <<>>, kw_idf |-> <<>>]

\* the local state of analyze_paper on entry
PaperStart ==
  /\ raw_text = <<>> /\ total_pages = 0 /\ title = <<>> /\ sections = <<>>
  /\ idf = <<>> /\ sec_i = 0 /\ keywords = <<>> /\ paper = NoPaper
  /\ calls = <<>> /\ kw_idf = <<>>

PaperStartNext ==
  /\ raw_text' = <<>> /\ total_pages' = 0 /\ title' = <<>> /\ sections' = <<>>
  /\ idf' = <<>> /\ sec_i' = 0 /\ keywords' = <<>> /\ paper' = NoPaper
  /\ calls' = <<>> /\ kw_idf' = <<>>

\* raw_text, total_pages = extract_text_from_pdf(pdf_path)
Extract ==
  /\ pc = "extract"
  /\ LET r == extract_text_from_pdf(file)
     IN IF r.raised # "none"
        THEN /\ pc' = "raised"
             /\ UNCHANGED <<raw_text, total_pages>>
        ELSE /\ pc' = "title"
             /\ raw_text' = r.text
             /\ total_pages' = r.total_pages
  /\ UNCHANGED <<title, sections, idf, sec_i, keywords, paper, calls, kw_idf>>
  /\ UNCHANGED <<input_vars, rerun_vars, fn_vars, batch_vars>>

\* title = _estimate_title(raw_text)
EstimateTitle ==
  /\ pc = "title"
  /\ title' = estimate_title(raw_text)
  /\ pc' = "detect"
  /\ UNCHANGED <<raw_text, total_pages, sections, idf, sec_i, keywords, paper,
                 calls, kw_idf>>
  /\ UNCHANGED <<input_vars, rerun_vars, fn_vars, batch_vars>>

\* sections = _detect_sections(raw_text)
DetectSections ==
  /\ pc = "detect"
  /\ sections' = detect_sections(raw_text)
  /\ pc' = "idf"
  /\ UNCHANGED <<raw_text, total_pages, title, idf, sec_i, keywords, paper,
                 calls, kw_idf>>
  /\ UNCHANGED <<input_vars, rerun_vars, fn_vars, batch_vars>>

\* idf = _compute_idf(all_docs), under any of the set iteration orders
ComputeIdf ==
  /\ pc = "idf"
  /\ \E order \in Orders : idf' = compute_idf(all_docs(sections), order)
  /\ sec_i' = 1
  /\ pc' = "summarize"
  /\ UNCHANGED <<raw_text, total_pages, title, sections, keywords, paper,
                 calls, kw_idf>>
  /\ UNCHANGED <<input_vars, rerun_vars, fn_vars, batch_vars>>

\* one iteration of "for sec in sections", or leaving the loop
SummarizeNext ==
  /\ pc = "summarize"
  /\ IF sec_i <= Len(sections)
     THEN LET r == summarize_step(sections[sec_i], idf, sentences_per_section)
          IN /\ sections' = [sections EXCEPT ![sec_i] = r.sec]
             /\ calls' = Append(calls, [called |-> r.called, idf |-> r.idf,
                                        picked |-> r.picked])
             /\ sec_i' = sec_i + 1
             /\ pc' = pc
     ELSE /\ pc' = "keywords"
          /\ UNCHANGED <<sections, calls, sec_i>>
  /\ UNCHANGED <<raw_text, total_pages, title, idf, keywords, paper, kw_idf>>
  /\ UNCHANGED <<input_vars, rerun_vars, fn_vars, batch_vars>>

\* keywords = extract_keywords(raw_text, num_keywords), under any of the set
\* iteration orders
ExtractKeywords ==
  /\ pc = "keywords"
  /\ \E order \in Orders :
        /\ keywords' = extract_keywords(raw_text, num_keywords, order)
        /\ kw_idf' = keyword_idf(raw_text, order)
  /\ pc' = "return"
  /\ UNCHANGED <<raw_text, total_pages, title, sections, idf, sec_i, paper,
                 calls>>
  /\ UNCHANGED <<input_vars, rerun_vars, fn_vars, batch_vars>>

\* return PaperInfo(...)
ReturnPaper ==
  /\ pc = "return"
  /\ paper' = [file_path |-> file.path, title |-> title,
               total_pages |-> total_pages, raw_text |-> raw_text,
               sections |-> sections, keywords |-> keywords]
  /\ pc' = "done"
  /\ UNCHANGED <<raw_text, total_pages, title, sections, idf, sec_i, keywords,
                 calls, kw_idf>>
  /\ UNCHANGED <<input_vars, rerun_vars, fn_vars, batch_vars>>

\* ---------------------------------------------------------------------------
\* Inputs
\* ---------------------------------------------------------------------------

\* longest text, in lines, drawn from LinePool
MaxLines == 3

\* largest sentences_per_section
MaxSentences == 1

\* largest num_keywords
MaxKeywords == 1

L_INTRO == <<"1","."," ","I","n","t","r","o","d","u","c","t","i","o","n">>

L_METHODS == <<"2","."," ","M","e","t","h","o","d","s">>

L_REFS == <<"R","e","f","e","r","e","n","c","e","s">>

L_RESDISC == <<"R","e","s","u","l","t","s"," ","a","n","d"," ","D","i","s","c","u","s","s","i","o","n">>

L_BODY2 == <<"A","l","p","h","a"," ","b","e","t","a"," ","g","a","m","m","a","."," ","B","e","t","a"," ","d","e","l","t","a"," ","a","l","p","h","a",".">>

L_CITE == <<"S","m","i","t","h"," ","e","t"," ","a","l","."," ","A","l","p","h","a"," ","2","0","2","0",".">>

L_BLANK == <<>>

LinePool == {L_INTRO, L_REFS, L_RESDISC, L_BODY2}

RECURSIVE SeqsUpTo(_, _)
\* the sequences of at most n elements of S
SeqsUpTo(S, n) ==
  IF n = 0 THEN {<<>>}
  ELSE LET shorter == SeqsUpTo(S, n - 1)
       IN shorter \cup {Append(ls, l) : ls \in shorter, l \in S}

\* the end-to-end scenario: three headings, each followed by its body
ScenarioLines ==
  <<L_INTRO, L_BODY2, L_METHODS, L_BODY2, L_REFS, L_CITE>>

\* a heading line with blanks before and after the heading
L_PADDED_REFS == <<" "," ","R","e","f","e","r","e","n","c","e","s"," ">>

\* texts with blank lines: before the first heading, between heading and body;
\* and a text whose heading line has blanks around the heading
BlankLineTexts ==
  {<<L_BLANK, L_REFS>>, <<L_BLANK, L_BLANK, L_INTRO, L_BLANK, L_BODY2>>,
   <<L_BLANK, L_BODY2>>, <<L_PADDED_REFS, L_BODY2>>}

\* a text whose only non-empty line comes after TITLE_SCAN_LINES blank lines
LateTitleLines == [i \in 1..TITLE_SCAN_LINES |-> L_BLANK] \o <<L_BODY2>>

TextsUpTo(n) ==
  {join_nl(ls) : ls \in SeqsUpTo(LinePool, n) \cup {ScenarioLines}
                        \cup BlankLineTexts \cup {LateTitleLines}}

Texts == TextsUpTo(MaxLines)

A_PDF == <<"a",".","p","d","f">>

B_PDF == <<"b",".","p","d","f">>

C_PDF == <<"c",".","p","d","f">>

N_TXT == <<"n",".","t","x","t">>

PdfOf(path, text) ==
  [path |-> path, exists |-> TRUE, readable |-> TRUE, pages |-> <<text>>]

\* files analyze_paper fails on: missing, not a .pdf, unreadable
BadFiles ==
  { [path |-> A_PDF, exists |-> FALSE, readable |-> TRUE, pages |-> <<>>],
    [path |-> N_TXT, exists |-> TRUE, readable |-> TRUE, pages |-> <<>>],
    [path |-> A_PDF, exists |-> TRUE, readable |-> FALSE, pages |-> <<>>] }

\* a file of three pages, the second without text
ThreePages ==
  [path |-> A_PDF, exists |-> TRUE, readable |-> TRUE,
   pages |-> <<L_INTRO, <<>>, L_BODY2>>]

PaperFiles(texts) == {PdfOf(A_PDF, t) : t \in texts} \cup BadFiles \cup {ThreePages}

\* no direct call of _compute_idf or _tokenize
NoFn == documents = <<>> /\ tok_in = <<>> /\ tok_out = <<>>

NoBatch ==
  /\ pdf_dir = [is_dir |-> FALSE, files |-> {}]
  /\ pdf_files = <<>> /\ batch_i = 0 /\ results = <<>> /\ bpc = "none"
  /\ attempted = {}

\* ---------------------------------------------------------------------------
\* Spec: analyze_paper on one file
\* ---------------------------------------------------------------------------

Init ==
  /\ file \in PaperFiles(Texts)
  /\ sentences_per_section \in 1..MaxSentences
  /\ num_keywords \in 0..MaxKeywords
  /\ pc = "extract"
  /\ PaperStart
  /\ run = 1 /\ first = NoFirst
  /\ NoFn
  /\ NoBatch

Next ==
  \/ Extract
  \/ EstimateTitle
  \/ DetectSections
  \/ ComputeIdf
  \/ SummarizeNext
  \/ ExtractKeywords
  \/ ReturnPaper

Spec == Init /\ [][Next]_vars

\* ---------------------------------------------------------------------------
\* SpecRerun: analyze_paper called twice on the same file and configuration
\* ---------------------------------------------------------------------------

\* longest text, in lines, of the two-call specification
MaxRerunLines == 2

InitRerun ==
  /\ file \in PaperFiles(TextsUpTo(MaxRerunLines))
  /\ sentences_per_section \in 1..MaxSentences
  /\ num_keywords \in 0..MaxKeywords
  /\ pc = "extract"
  /\ PaperStart
  /\ run = 1 /\ first = NoFirst
  /\ NoFn
  /\ NoBatch

\* the same call again; first keeps what the first call returned and the two
\* IDF mappings it computed
Rerun ==
  /\ pc = "done"
  /\ run = 1
  /\ first' = [paper |-> paper, idf |-> idf, kw_idf |-> kw_idf]
  /\ run' = 2
  /\ pc' = "extract"
  /\ PaperStartNext
  /\ UNCHANGED <<input_vars, batch_vars, fn_vars>>

NextRerun ==
  \/ Extract
  \/ EstimateTitle
  \/ DetectSections
  \/ ComputeIdf
  \/ SummarizeNext
  \/ ExtractKeywords
  \/ ReturnPaper
  \/ Rerun

SpecRerun == InitRerun /\ [][NextRerun]_vars

\* ---------------------------------------------------------------------------
\* SpecSumm: summarize_section as a function of any section, any IDF mapping
\* and any max_sentences
\* ---------------------------------------------------------------------------

\* most sentences in a section handed to summarize_section
MaxSectionSentences == 3

\* largest max_sentences handed to summarize_section
MaxTop == 2

S_ABG == <<"A","l","p","h","a"," ","b","e","t","a"," ","g","a","m","m","a",".">>

S_BDA == <<"B","e","t","a"," ","d","e","l","t","a"," ","a","l","p","h","a",".">>

S_GD == <<"G","a","m","m","a"," ","t","h","e"," ","d","e","l","t","a">>

\* a sentence without any token
S_NUM == <<"1","2","3","4","5"," ","6","7","8","9","0"," ","1",".">>

SentencePool == {S_ABG, S_BDA, S_GD, S_NUM}

W_ALPHA == <<"a","l","p","h","a">>

W_GAMMA == <<"g","a","m","m","a">>

W_DELTA == <<"d","e","l","t","a">>

\* IDF values: ln(2/3), ln(2/2), ln(4/2)
IdfValues == {LnTable[2][3], LnTable[2][2], LnTable[4][2]}

\* the IDF mappings over three terms: each term absent or with one of the values
IdfPool ==
  LET opt(w) == {<<>>} \cup {<<<<w, v>>>> : v \in IdfValues}
  IN {a \o g \o d : a \in opt(W_ALPHA), g \in opt(W_GAMMA), d \in opt(W_DELTA)}

InitSumm ==
  /\ sections \in {<<[name |-> "Full Text", text |-> join_nl(ss),
                      sentences |-> ss, summary_sentences |-> <<>>]>> :
                     ss \in SeqsUpTo(SentencePool, MaxSectionSentences)}
  /\ idf \in IdfPool
  /\ sentences_per_section \in 0..MaxTop
  /\ pc = "call"
  /\ file = ThreePages /\ num_keywords = 0
  /\ raw_text = <<>> /\ total_pages = 0 /\ title = <<>> /\ sec_i = 1
  /\ keywords = <<>> /\ paper = NoPaper /\ calls = <<>> /\ kw_idf = <<>>
  /\ run = 1 /\ first = NoFirst
  /\ NoFn
  /\ NoBatch

\* section.summary_sentences = summarize_section(section, idf, max_sentences)
SummarizeCall ==
  /\ pc = "call"
  /\ sections' = [sections EXCEPT ![1].summary_sentences =
                    summarize_section(sections[1], idf, sentences_per_section)]
  /\ calls' = <<[called |-> TRUE, idf |-> idf,
                 picked |-> picked_indices(sections[1], idf,
                                           sentences_per_section)]>>
  /\ pc' = "called"
  /\ UNCHANGED <<raw_text, total_pages, title, idf, sec_i, keywords, paper, kw_idf>>
  /\ UNCHANGED <<input_vars, rerun_vars, fn_vars, batch_vars>>

NextSumm == SummarizeCall

SpecSumm == InitSumm /\ [][NextSumm]_vars

\* ---------------------------------------------------------------------------
\* SpecBatch: summarize_batch over a directory
\* ---------------------------------------------------------------------------

\* most *.pdf files in the directory
MaxFiles == 2

PdfNames == <<A_PDF, B_PDF, C_PDF>>

\* what a *.pdf file of the directory can hold: nothing PdfReader can read,
\* or one page of text
BatchTexts == {join_nl(<<L_INTRO, L_BODY2>>), L_BODY2}

FilesNamed(path) ==
  {[path |-> path, exists |-> TRUE, readable |-> FALSE, pages |-> <<>>]}
  \cup {PdfOf(path, t) : t \in BatchTexts}

\* a file that is not a *.pdf
OtherFile == [path |-> N_TXT, exists |-> TRUE, readable |-> TRUE, pages |-> <<>>]

RECURSIVE DirListings(_)
\* the directory contents over the first n names of PdfNames: every name is
\* absent or names one file
DirListings(n) ==
  IF n = 0 THEN {{OtherFile}}
  ELSE LET less == DirListings(n - 1)
       IN less \cup {d \cup {f} : d \in less, f \in FilesNamed(PdfNames[n])}

\* dir_path.glob("*.pdf")
glob_pdf(files) ==
  {f \in files : Len(f.path) >= Len(PDF_SUFFIX)
                 /\ SubSeq(f.path, Len(f.path) - Len(PDF_SUFFIX) + 1,
                           Len(f.path)) = PDF_SUFFIX}

RECURSIVE sorted_files_descending(_)
\* variant: the files in descending order of path
sorted_files_descending(files) ==
  IF files = {} THEN <<>>
  ELSE LET m == CHOOSE f \in files :
                  \A g \in files : g = f \/ StrLess(g.path, f.path)
       IN <<m>> \o sorted_files_descending(files \ {m})

RECURSIVE sorted_files(_)
\* sorted(...) of paths in one directory
sorted_files(files) ==
  IF files = {} THEN <<>>
  ELSE LET m == CHOOSE f \in files :
                  \A g \in files : g = f \/ StrLess(f.path, g.path)
       IN <<m>> \o sorted_files(files \ {m})

\* variant: the handler raises the error again
after_exception_reraise(i) == [bpc |-> "raised", batch_i |-> i]

\* the except clause: the error is printed and the loop goes on with file i + 1
after_exception(i) == [bpc |-> "loop", batch_i |-> i + 1]

InitBatch ==
  /\ pdf_dir \in {[is_dir |-> FALSE, files |-> {}]}
                 \cup {[is_dir |-> TRUE, files |-> d] : d \in DirListings(MaxFiles)}
  /\ sentences_per_section \in 1..MaxSentences
  /\ num_keywords \in 0..MaxKeywords
  /\ bpc = "start"
  /\ pdf_files = <<>> /\ batch_i = 0 /\ results = <<>> /\ attempted = {}
  /\ file = OtherFile
  /\ pc = "idle"
  /\ PaperStart
  /\ run = 1 /\ first = NoFirst
  /\ NoFn

\* the directory check, the glob and the early return
BatchStart ==
  /\ bpc = "start"
  /\ IF ~pdf_dir.is_dir
     THEN /\ bpc' = "raised"
          /\ UNCHANGED <<pdf_files, batch_i>>
     ELSE LET fs == sorted_files(glob_pdf(pdf_dir.files))
          IN /\ pdf_files' = fs
             /\ batch_i' = 1
             /\ bpc' = IF fs = <<>> THEN "returned" ELSE "loop"
  /\ UNCHANGED <<pdf_dir, results, attempted>>
  /\ UNCHANGED <<input_vars, paper_vars, rerun_vars, fn_vars>>

\* the next file of the loop: summarize_paper is entered
BatchCall ==
  /\ bpc = "loop"
  /\ batch_i <= Len(pdf_files)
  /\ file' = pdf_files[batch_i]
  /\ attempted' = attempted \cup {batch_i}
  /\ bpc' = "in_paper"
  /\ pc' = "extract"
  /\ PaperStartNext
  /\ UNCHANGED <<sentences_per_section, num_keywords, rerun_vars, fn_vars>>
  /\ UNCHANGED <<pdf_dir, pdf_files, batch_i, results>>

\* summarize_paper returned: results.append(paper)
BatchAppend ==
  /\ bpc = "in_paper"
  /\ pc = "done"
  /\ results' = Append(results, paper)
  /\ batch_i' = batch_i + 1
  /\ bpc' = "loop"
  /\ pc' = "idle"
  /\ UNCHANGED <<raw_text, total_pages, title, sections, idf, sec_i, keywords,
                 paper, calls, kw_idf>>
  /\ UNCHANGED <<input_vars, rerun_vars, fn_vars, pdf_dir, pdf_files, attempted>>

\* summarize_paper raised: except Exception
BatchExcept ==
  /\ bpc = "in_paper"
  /\ pc = "raised"
  /\ bpc' = after_exception(batch_i).bpc
  /\ batch_i' = after_exception(batch_i).batch_i
  /\ pc' = "idle"
  /\ UNCHANGED <<raw_text, total_pages, title, sections, idf, sec_i, keywords,
                 paper, calls, kw_idf>>
  /\ UNCHANGED <<input_vars, rerun_vars, fn_vars, pdf_dir, pdf_files, results,
                 attempted>>

\* the loop is over: return results
BatchReturn ==
  /\ bpc = "loop"
  /\ batch_i > Len(pdf_files)
  /\ bpc' = "returned"
  /\ UNCHANGED <<pdf_dir, pdf_files, batch_i, results, attempted>>
  /\ UNCHANGED <<input_vars, paper_vars, rerun_vars, fn_vars>>

NextBatch ==
  \/ BatchStart
  \/ BatchCall
  \/ Extract
  \/ EstimateTitle
  \/ DetectSections
  \/ ComputeIdf
  \/ SummarizeNext
  \/ ExtractKeywords
  \/ ReturnPaper
  \/ BatchAppend
  \/ BatchExcept
  \/ BatchReturn

SpecBatch == InitBatch /\ [][NextBatch]_vars

\* ---------------------------------------------------------------------------
\* SpecIdf: _compute_idf as a function of any corpus of tokenized documents
\* ---------------------------------------------------------------------------

\* most documents in a corpus handed to _compute_idf
MaxDocs == 2

\* most tokens in a document of that corpus
MaxDocLen == 2

TermPool == {W_ALPHA, W_GAMMA}

InitIdf ==
  /\ documents \in SeqsUpTo(SeqsUpTo(TermPool, MaxDocLen), MaxDocs)
  /\ pc = "call"
  /\ file = ThreePages /\ sentences_per_section = 0 /\ num_keywords = 0
  /\ PaperStart
  /\ run = 1 /\ first = NoFirst
  /\ tok_in = <<>> /\ tok_out = <<>>
  /\ NoBatch

\* idf = _compute_idf(documents), under any of the set iteration orders
IdfCall ==
  /\ pc = "call"
  /\ \E order \in Orders : idf' = compute_idf(documents, order)
  /\ pc' = "called"
  /\ UNCHANGED <<raw_text, total_pages, title, sections, sec_i, keywords, paper,
                 calls, kw_idf>>
  /\ UNCHANGED <<input_vars, rerun_vars, batch_vars, fn_vars>>

NextIdf == IdfCall

SpecIdf == InitIdf /\ [][NextIdf]_vars

\* ---------------------------------------------------------------------------
\* SpecTok: _tokenize as a function of any string
\* ---------------------------------------------------------------------------

\* longest string, in characters, handed to _tokenize
MaxTokLen == 4

\* letters of both cases, a blank, a digit, punctuation, the Kelvin sign
TokAlphabet == {"t", "h", "E", " ", "3", ".", KELVIN_SIGN}

QUICK_ANALYSIS ==
  <<"t","h","e"," ","q","u","i","c","k"," ","a","n","a","l","y","s","i","s"," ","o","f"," ","r","e","s","u","l","t","s">>

InitTok ==
  /\ tok_in \in SeqsUpTo(TokAlphabet, MaxTokLen) \cup {QUICK_ANALYSIS}
  /\ tok_out = <<>>
  /\ documents = <<>>
  /\ pc = "call"
  /\ file = ThreePages /\ sentences_per_section = 0 /\ num_keywords = 0
  /\ PaperStart
  /\ run = 1 /\ first = NoFirst
  /\ NoBatch

\* tok_out = _tokenize(tok_in)
TokenizeCall ==
  /\ pc = "call"
  /\ tok_out' = tokenize(tok_in)
  /\ pc' = "called"
  /\ UNCHANGED <<raw_text, total_pages, title, sections, idf, sec_i, keywords,
                 paper, calls, kw_idf>>
  /\ UNCHANGED <<input_vars, rerun_vars, batch_vars, documents, tok_in>>

NextTok == TokenizeCall

SpecTok == InitTok /\ [][NextTok]_vars

\* ---------------------------------------------------------------------------
\* SpecLimits: analyze_paper with limits from zero upwards
\* ---------------------------------------------------------------------------

\* largest sentences_per_section and num_keywords of this specification
MaxLimit == 3

\* longest text, in lines, of this specification
MaxLimitLines == 1

InitLimits ==
  /\ file \in PaperFiles(TextsUpTo(MaxLimitLines))
  /\ sentences_per_section \in 0..MaxLimit
  /\ num_keywords \in 0..MaxLimit
  /\ pc = "extract"
  /\ PaperStart
  /\ run = 1 /\ first = NoFirst
  /\ NoFn
  /\ NoBatch

SpecLimits == InitLimits /\ [][Next]_vars

\* ---------------------------------------------------------------------------
\* Properties
\* ---------------------------------------------------------------------------

\* the lines of a text, 1-based, that the Section Detector takes as headings:
\* not empty once stripped, and matching some pattern
HeadingLines(text) ==
  LET lines == split_nl(text)
  IN {i \in 1..Len(lines) :
        /\ strip(lines[i]) # <<>>
        /\ \E k \in 1..Len(SECTION_PATTERNS) :
              re_match(SECTION_PATTERNS[k][1], strip(lines[i]))}

\* canonical name of the first pattern, in list order, that a line matches
FirstPatternName(line) ==
  LET ms == {k \in 1..Len(SECTION_PATTERNS) :
               re_match(SECTION_PATTERNS[k][1], strip(line))}
  IN SECTION_PATTERNS[CHOOSE k \in ms : \A m \in ms : k <= m][2]

\* the lines of all sections, one section after the other
SectionLines(secs) == Flatten([k \in 1..Len(secs) |-> split_nl(secs[k].text)])

SectionNames(secs) == [k \in 1..Len(secs) |-> secs[k].name]

\* _detect_sections has just returned
Detected == pc = "idf"

\* C1: whenever at least one heading line is detected, the line slices of the
\* sections, concatenated in order, are exactly the lines of the raw text,
\* the lines before the first heading included.
C1_SectionPartition ==
  (Detected /\ HeadingLines(raw_text) # {})
    => SectionLines(sections) = split_nl(raw_text)

\* C2: a section whose name is in the skip-set has an empty
\* summary_sentences, at every point of the run and for every
\* sentences_per_section > 0.
C2_SkipSetEmpty ==
  \A k \in 1..Len(sections) :
     sections[k].name \in SKIP_SECTIONS => sections[k].summary_sentences = <<>>

\* C2 witness: the run is over, sentences_per_section > 0, and a skip-set
\* section that has sentences with tokens was passed over
C2_Witness ==
  /\ pc = "done"
  /\ sentences_per_section > 0
  /\ \E k \in 1..Len(sections) :
        /\ sections[k].name \in SKIP_SECTIONS
        /\ \E j \in 1..Len(sections[k].sentences) :
              tokenize(sections[k].sentences[j]) # <<>>
        /\ sections[k].summary_sentences = <<>>
        /\ ~calls[k].called

\* s is strictly increasing
StrictlyIncreasing(s) == \A i, j \in 1..Len(s) : i < j => s[i] < s[j]

RECURSIVE IsSubseq(_, _)
\* a is b with some elements left out
IsSubseq(a, b) ==
  IF a = <<>> THEN TRUE
  ELSE IF b = <<>> THEN FALSE
  ELSE IF Head(a) = Head(b) THEN IsSubseq(Tail(a), Tail(b))
  ELSE IsSubseq(a, Tail(b))

\* C3: what summarize_section returns is a subsequence of section.sentences:
\* each returned sentence is the sentence at its picked index, and the picked
\* indices are strictly increasing.
C3_OrderRestoration ==
  pc = "called" =>
    LET out == sections[1].summary_sentences
        ss == sections[1].sentences
        p == calls[1].picked
    IN /\ Len(p) = Len(out)
       /\ \A j \in 1..Len(p) : p[j] \in 0..(Len(ss) - 1) /\ out[j] = ss[p[j] + 1]
       /\ StrictlyIncreasing(p)
       /\ IsSubseq(out, ss)

\* C3 witness: two sentences were selected and the better scored of them is
\* the later one in the section
C3_Witness ==
  /\ pc = "called"
  /\ Len(sections[1].summary_sentences) >= 2
  /\ LET ranked == score_sentences(sections[1].sentences, idf)
     IN ranked[1].idx > ranked[2].idx /\ FracLess(ranked[2].score, ranked[1].score)

\* C4: when headings are detected there is exactly one section per heading
\* line, the k-th section opens with the k-th heading line of the text and is
\* named after the first pattern that line matches; the scenario text gives
\* Introduction, Methods, References.
C4_SectionOrder ==
  (Detected /\ HeadingLines(raw_text) # {}) =>
    LET lines == split_nl(raw_text)
        hs == SortedSeq(HeadingLines(raw_text))
    IN /\ Len(sections) = Len(hs)
       /\ \A k \in 1..Len(hs) :
             /\ sections[k].name = FirstPatternName(lines[hs[k]])
             /\ split_nl(sections[k].text)[1] = lines[hs[k]]
       /\ (raw_text = join_nl(ScenarioLines)
             => SectionNames(sections) = <<"Introduction", "Methods", "References">>)

\* C4 witness: the scenario text has been split into its three sections
C4_Witness ==
  /\ Detected
  /\ raw_text = join_nl(ScenarioLines)
  /\ Len(sections) = 3

\* C5: without any heading line the detector returns the single section
\* "Full Text" holding the whole raw text, and with a heading line no section
\* is named "Full Text".
C5_FullTextFallback ==
  Detected =>
    IF HeadingLines(raw_text) = {}
    THEN /\ Len(sections) = 1
         /\ sections[1].name = "Full Text"
         /\ sections[1].text = raw_text
    ELSE \A k \in 1..Len(sections) : sections[k].name # "Full Text"

\* C5 witness: a text of several lines, none a heading, became "Full Text"
C5_Witness ==
  /\ Detected
  /\ Len(split_nl(raw_text)) >= 2
  /\ raw_text # <<"\n">>
  /\ sections[1].name = "Full Text"
  /\ sections[1].sentences # <<>>

\* the IDF mapping of a corpus, term by term: ln(N / (1 + number of
\* documents holding the term))
ExpectedIdf(docs) ==
  {<<w, math_log_ratio(Len(docs),
          1 + Cardinality({j \in 1..Len(docs) : w \in Range(docs[j])}))>> :
     w \in UNION {Range(docs[j]) : j \in 1..Len(docs)}}

TokenDocs(sentences) == [j \in 1..Len(sentences) |-> tokenize(sentences[j])]

\* C6 as stated: at the end of a run the IDF mapping that ranked the keywords
\* and the one every section was scored with are the mapping computed once
\* from all sentences.
C6_SingleSharedIdf ==
  pc = "done" =>
    /\ AsMap(kw_idf) = AsMap(idf)
    /\ \A k \in 1..Len(calls) : calls[k].called => AsMap(calls[k].idf) = AsMap(idf)

\* C6 amended: every summarised section is scored with the one IDF mapping
\* computed from the sentences of all detected sections; the keywords are
\* ranked with a second mapping, computed from the sentences of the whole raw
\* text.
C6_SectionIdfShared ==
  pc = "done" =>
    /\ \A k \in 1..Len(calls) : calls[k].called => calls[k].idf = idf
    /\ AsMap(idf) =
         ExpectedIdf(TokenDocs(Flatten(
            [k \in 1..Len(sections) |-> sections[k].sentences])))
    /\ AsMap(kw_idf) = ExpectedIdf(TokenDocs(split_sentences(raw_text)))

\* C6 witness: two sections with sentences were summarised, and the keyword
\* IDF is not the section IDF
C6_Witness ==
  /\ pc = "done"
  /\ Cardinality({k \in 1..Len(calls) :
                    calls[k].called /\ sections[k].sentences # <<>>}) >= 2
  /\ AsMap(kw_idf) # AsMap(idf)

RESDISC_PATTERN ==
  CHOOSE k \in 1..Len(SECTION_PATTERNS) :
     SECTION_PATTERNS[k][2] = "Results and Discussion"

\* C7: a section opened by a heading line that matches the "results and
\* discussion" pattern is named "Results and Discussion".
C7_ResultsAndDiscussion ==
  (Detected /\ HeadingLines(raw_text) # {}) =>
    \A k \in 1..Len(sections) :
       re_match(SECTION_PATTERNS[RESDISC_PATTERN][1],
                strip(split_nl(sections[k].text)[1]))
         => sections[k].name = "Results and Discussion"

\* C8: an error of one paper never leaves summarize_batch, and when the call
\* returns every file of the sorted list has been tried.
C8_BatchIsolation ==
  /\ pdf_dir.is_dir => bpc # "raised"
  /\ bpc = "returned" => attempted = 1..Len(pdf_files)

\* C8 witness: the batch returned, its first file failed and a later file
\* was processed into a result
C8_Witness ==
  /\ bpc = "returned"
  /\ Len(pdf_files) >= 2
  /\ ~pdf_files[1].readable
  /\ \E j \in 2..Len(pdf_files) :
        j \in attempted /\ \E r \in 1..Len(results) :
                              results[r].file_path = pdf_files[j].path

C10_Determinism ==
  (run = 2 /\ pc = "done") => paper = first.paper

\* C10 witness: both calls are over, the two IDF mappings of the second call
\* were built in another key order than those of the first, and the keyword
\* ranking had a tie to break
C10_Witness ==
  /\ run = 2
  /\ pc = "done"
  /\ Keys(idf) # Keys(first.idf)
  /\ Keys(kw_idf) # Keys(first.kw_idf)
  /\ Len(keywords) >= 1
  /\ LET sc == tfidf_scores(compute_tf(tokenize(raw_text)), kw_idf)
     IN \E i, j \in 1..Len(sc) :
           i # j /\ sc[i][1] = keywords[1] /\ sc[i][2] = sc[j][2]

\* the documents of a corpus that hold a term at least once
DocsWith(docs, w) == {j \in 1..Len(docs) : \E p \in 1..Len(docs[j]) : docs[j][p] = w}

\* the terms observed in a corpus
CorpusTerms(docs) == UNION {Range(docs[j]) : j \in 1..Len(docs)}

\* C11: for a non-empty corpus of N documents the IDF mapping has exactly one
\* key per term observed in the corpus and no other key, the value of a term
\* is ln(N / (1 + df)) with df the number of documents that hold the term at
\* least once, and a term held by every document has a strictly negative IDF.
C11_IdfBound ==
  (pc = "called" /\ Len(documents) >= 1) =>
    /\ Len(idf) = Cardinality(CorpusTerms(documents))
    /\ {idf[i][1] : i \in 1..Len(idf)} = CorpusTerms(documents)
    /\ \A i \in 1..Len(idf) :
          LET df == Cardinality(DocsWith(documents, idf[i][1]))
          IN /\ idf[i][2] = LnTable[Len(documents)][1 + df]
             /\ df = Len(documents) => idf[i][2] < 0

\* C11 witness: a corpus of two documents where one term is repeated inside a
\* document, one term is in every document and one term is in one document only
C11_Witness ==
  /\ pc = "called"
  /\ Len(documents) = 2
  /\ \E j \in 1..2 : Len(documents[j]) = 2 /\ documents[j][1] = documents[j][2]
  /\ \E i \in 1..Len(idf) : Cardinality(DocsWith(documents, idf[i][1])) = 2
  /\ \E i \in 1..Len(idf) : Cardinality(DocsWith(documents, idf[i][1])) = 1

\* the maximal runs of MIN_TOKEN_LEN or more ASCII letters of s, left to right
LetterRuns(s) ==
  LET iv == {<<a, b>> \in (1..Len(s)) \X (1..Len(s)) :
               /\ b - a + 1 >= MIN_TOKEN_LEN
               /\ \A p \in a..b : s[p] \in Letter
               /\ a = 1 \/ s[a - 1] \notin Letter
               /\ b = Len(s) \/ s[b + 1] \notin Letter}
      starts == SortedSeq({x[1] : x \in iv})
  IN [k \in 1..Len(starts) |->
        LET x == CHOOSE y \in iv : y[1] = starts[k] IN SubSeq(s, x[1], x[2])]

\* the words of ws that are not stopwords
NotStopWords(ws) == SelectSeq(ws, LAMBDA w : w \notin STOP_WORDS)

QUICK_ANALYSIS_TOKENS ==
  <<<<"q","u","i","c","k">>, <<"a","n","a","l","y","s","i","s">>, <<"r","e","s","u","l","t","s">>>>

\* C12 as stated: the tokens are the maximal runs of two or more ASCII letters
\* of the input, each lowercased, without those that are stopwords.
C12_RunsOfInput ==
  pc = "called" =>
    LET runs == LetterRuns(tok_in)
    IN tok_out = NotStopWords([k \in 1..Len(runs) |-> lower(runs[k])])

\* C12 amended: the tokens are the maximal runs of two or more ASCII letters
\* of the lowercased input, in order of occurrence, without those that are
\* stopwords; every token is made of lowercase ASCII letters only, the empty
\* string gives no token and "the quick analysis of results" gives quick,
\* analysis, results.
C12_RunsOfLoweredInput ==
  pc = "called" =>
    /\ tok_out = NotStopWords(LetterRuns(lower(tok_in)))
    /\ \A k \in 1..Len(tok_out) :
          /\ Len(tok_out[k]) >= MIN_TOKEN_LEN
          /\ \A p \in 1..Len(tok_out[k]) : tok_out[k][p] \in LowerCh
    /\ tok_in = <<>> => tok_out = <<>>
    /\ tok_in = QUICK_ANALYSIS => tok_out = QUICK_ANALYSIS_TOKENS

\* C12 witness: the input has a Kelvin sign next to an ASCII letter and a
\* token came out of it
C12_Witness ==
  /\ pc = "called"
  /\ \E p \in 1..Len(tok_in) - 1 : tok_in[p] = KELVIN_SIGN /\ tok_in[p + 1] \in Letter
  /\ tok_out # <<>>

\* C13: with sentences_per_section = 0 every call of summarize_section
\* returns the empty list, with num_keywords = 0 extract_keywords returns the
\* empty list, and neither raises: the only error of a run is raised by the
\* text extraction, before any section exists.
C13_ZeroLimits ==
  /\ (sentences_per_section = 0 /\ pc \in {"keywords", "return", "done"}) =>
        \A k \in 1..Len(sections) :
           /\ sections[k].summary_sentences = <<>>
           /\ calls[k].picked = <<>>
  /\ (num_keywords = 0 /\ pc \in {"return", "done"}) => keywords = <<>>
  /\ pc = "raised" => (sections = <<>> /\ calls = <<>> /\ sec_i = 0)

\* C13 witness: a run with both limits zero is over; it called
\* summarize_section on a section that has sentences with tokens, and the
\* text has tokens to rank
C13_Witness ==
  /\ pc = "done"
  /\ sentences_per_section = 0
  /\ num_keywords = 0
  /\ \E k \in 1..Len(sections) :
        /\ calls[k].called
        /\ \E j \in 1..Len(sections[k].sentences) :
              tokenize(sections[k].sentences[j]) # <<>>
  /\ tokenize(raw_text) # <<>>

\* the non-empty lines of a text, stripped, in order
NonEmptyLines(text) ==
  LET lines == split_nl(text)
      ne == SelectSeq(lines, LAMBDA ln : strip(ln) # <<>>)
  IN [i \in 1..Len(ne) |-> strip(ne[i])]

\* C14 as stated: over the first 15 non-empty lines of the raw text, blank
\* lines not counted, the title is the first line longer than 10 characters
\* that comes before the first heading line; without such a line it is the
\* first non-empty line; the sentinel is returned only for a text without any
\* non-empty line.
C14_TitleAmongNonEmptyLines ==
  pc \in {"detect", "idf", "summarize", "keywords", "return", "done"} =>
    LET scanned == Take(NonEmptyLines(raw_text), TITLE_SCAN_LINES)
        stops == {i \in 1..Len(scanned) : is_heading(scanned[i])}
        long == {i \in 1..Len(scanned) :
                   /\ Len(scanned[i]) > TITLE_MIN_LEN
                   /\ \A j \in stops : i < j}
    IN title = IF scanned = <<>> THEN UNKNOWN_TITLE
               ELSE IF long = {} THEN scanned[1]
               ELSE scanned[CHOOSE i \in long : \A j \in long : i <= j]

\* C15: with headings detected, section k starts with the k-th heading line,
\* character for character, its text is the lines from that heading up to but
\* not including the next heading line (up to the end of the text for the last
\* section), and its sentences are the Sentence Splitter's output on that text.
C15_HeadingInSection ==
  (Detected /\ HeadingLines(raw_text) # {}) =>
    LET lines == split_nl(raw_text)
        hs == SortedSeq(HeadingLines(raw_text))
        stop(k) == IF k < Len(hs) THEN hs[k + 1] - 1 ELSE Len(lines)
    IN /\ Len(sections) = Len(hs)
       /\ \A k \in 1..Len(hs) :
             /\ Take(split_nl(sections[k].text), 1) = <<lines[hs[k]]>>
             /\ sections[k].text = join_nl(SubSeq(lines, hs[k], stop(k)))
             /\ \A i \in 2..Len(split_nl(sections[k].text)) :
                   hs[k] + i - 1 \notin HeadingLines(raw_text)
             /\ sections[k].sentences = split_sentences(sections[k].text)

\* C15 witness: two sections were detected, the first one holding body
\* lines with sentences after its heading line
C15_Witness ==
  /\ Detected
  /\ Len(sections) >= 2
  /\ Len(split_nl(sections[1].text)) >= 2
  /\ sections[1].sentences # <<>>

RECURSIVE SumIdf(_, _)
\* the sum, over the token occurrences of a sentence, of the IDF of the token
\* (0 for a token without IDF)
SumIdf(words, idf_map) ==
  IF words = <<>> THEN 0
  ELSE Get(idf_map, Head(words), 0) + SumIdf(Tail(words), idf_map)

\* TF-IDF score of a sentence as a fraction: every occurrence of a token
\* weighs 1 / (number of tokens of the sentence)
SentenceScore(sent, idf_map) ==
  <<SumIdf(tokenize(sent), idf_map), Len(tokenize(sent))>>

FracEq(a, b) == a[1] * b[2] = b[1] * a[2]

\* 0-based indices of the sentences of the called section that have a token
ScoredIdx == {i \in 0..(Len(sections[1].sentences) - 1) :
                tokenize(sections[1].sentences[i + 1]) # <<>>}

\* 0-based indices summarize_section selected
SelectedIdx == {calls[1].picked[j] : j \in 1..Len(calls[1].picked)}

\* C16: the selected sentences are scored sentences; no scored sentence left
\* out has a strictly higher score than a selected one, and one left out with
\* the score of a selected one has the larger original index.
C16_TopKIndexTieBreak ==
  pc = "called" =>
    \A scored \in {ScoredIdx} : \A selected \in {SelectedIdx} :
    \A score \in {[i \in scored |->
                     SentenceScore(sections[1].sentences[i + 1], idf)]} :
       /\ selected \subseteq scored
       /\ \A s \in selected : \A u \in scored \ selected :
             /\ ~FracLess(score[s], score[u])
             /\ FracEq(score[s], score[u]) => u > s

\* C16 witness: a scored sentence was left out although its score equals the
\* score of a selected one, and another one because its score is lower
C16_Witness ==
  /\ pc = "called"
  /\ \E s \in SelectedIdx : \E u \in ScoredIdx \ SelectedIdx :
        FracEq(SentenceScore(sections[1].sentences[s + 1], idf),
               SentenceScore(sections[1].sentences[u + 1], idf))
  /\ \E s \in SelectedIdx : \E u \in ScoredIdx \ SelectedIdx :
        FracLess(SentenceScore(sections[1].sentences[u + 1], idf),
                 SentenceScore(sections[1].sentences[s + 1], idf))

\* C17: a sentence without any token is never in the summary: every returned
\* sentence has a token, and no picked index is the index of a token-less
\* sentence.
C17_TokenlessNeverRanked ==
  pc = "called" =>
    /\ \A j \in 1..Len(sections[1].summary_sentences) :
          tokenize(sections[1].summary_sentences[j]) # <<>>
    /\ \A i \in 1..Len(sections[1].sentences) :
          tokenize(sections[1].sentences[i]) = <<>> => (i - 1) \notin SelectedIdx

\* C17 witness: the section has a token-less sentence, max_sentences exceeds
\* the number of sentences with tokens, and every sentence with tokens has a
\* negative score
C17_Witness ==
  /\ pc = "called"
  /\ \E i \in 1..Len(sections[1].sentences) :
        tokenize(sections[1].sentences[i]) = <<>>
  /\ ScoredIdx # {}
  /\ sentences_per_section > Cardinality(ScoredIdx)
  /\ \A s \in ScoredIdx :
        SentenceScore(sections[1].sentences[s + 1], idf)[1] < 0
  /\ SelectedIdx = ScoredIdx

\* number of occurrences of w in the token sequence of the raw text
TermCount(w) ==
  LET toks == tokenize(raw_text)
  IN Cardinality({p \in 1..Len(toks) : toks[p] = w})

\* position of the first occurrence of w in the token sequence of the raw text
FirstPos(w) ==
  LET toks == tokenize(raw_text)
  IN CHOOSE p \in 1..Len(toks) :
       toks[p] = w /\ \A q \in 1..(p - 1) : toks[q] # w

\* IDF of w in the corpus of the sentences of the raw text, 0 without one
SentenceCorpusIdf(w) ==
  LET m == ExpectedIdf(TokenDocs(split_sentences(raw_text)))
  IN IF \E x \in m : x[1] = w THEN (CHOOSE x \in m : x[1] = w)[2] ELSE 0

\* TF x IDF of w, times the number of tokens of the raw text
KeywordScore(w) == TermCount(w) * SentenceCorpusIdf(w)

\* w comes before v in the full ranking: higher score, or the same score and
\* an earlier first occurrence
RanksBefore(w, v) ==
  \/ KeywordScore(w) > KeywordScore(v)
  \/ KeywordScore(w) = KeywordScore(v) /\ FirstPos(w) < FirstPos(v)

\* C18: the returned keywords are the first min(num_keywords, number of
\* terms) terms of the ranking by non-increasing TF x IDF with equal scores
\* in order of first occurrence: consecutive keywords are in ranking order
\* and every keyword ranks before every term that was not returned.
C18_KeywordRanking ==
  pc \in {"return", "done"} =>
    LET terms == Range(tokenize(raw_text))
        n == Cardinality(terms)
    IN /\ Len(keywords) = IF num_keywords < n THEN num_keywords ELSE n
       /\ Range(keywords) \subseteq terms
       /\ \A i, j \in 1..Len(keywords) :
             i < j => RanksBefore(keywords[i], keywords[j])
       /\ \A k \in Range(keywords) : \A u \in terms \ Range(keywords) :
             RanksBefore(k, u)

\* C18 witness: three keywords were returned, the first two of equal score,
\* the third of lower score, and a term of the score of the third was left out
C18_Witness ==
  /\ pc = "done"
  /\ Len(keywords) >= 3
  /\ KeywordScore(keywords[1]) = KeywordScore(keywords[2])
  /\ KeywordScore(keywords[2]) > KeywordScore(keywords[3])
  /\ \E u \in Range(tokenize(raw_text)) \ Range(keywords) :
        KeywordScore(u) = KeywordScore(keywords[3])

\* C19: summarize_section returns exactly min(max_sentences, number of
\* sentences of the section with at least one token) sentences, and none for
\* a section without sentences.
C19_ExactSummaryLength ==
  pc = "called" =>
    LET n == Cardinality(ScoredIdx)
        out == sections[1].summary_sentences
    IN /\ Len(out) = IF sentences_per_section < n THEN sentences_per_section ELSE n
       /\ sections[1].sentences = <<>> => out = <<>>

\* C19 witness: the section has more sentences with tokens than max_sentences,
\* at least one was asked for, and it also has a sentence without tokens
C19_Witness ==
  /\ pc = "called"
  /\ sentences_per_section >= 1
  /\ Cardinality(ScoredIdx) > sentences_per_section
  /\ Cardinality(ScoredIdx) < Len(sections[1].sentences)
  /\ Len(sections[1].summary_sentences) = sentences_per_section

\* the *.pdf files of the directory whose processing ends without an error
Processable(f) == extract_text_from_pdf(f).raised = "none"

\* C20: when summarize_batch returns, pdf_files are the *.pdf files of the
\* directory in strictly increasing order of path, and results holds, in that
\* order, one PaperInfo for each file processed without error and nothing for
\* a file that failed: its length is the number of files minus the failures.
C20_BatchResultList ==
  (bpc = "returned" /\ pdf_dir.is_dir) =>
    LET ok == SelectSeq(pdf_files, Processable)
        failures == {j \in 1..Len(pdf_files) : ~Processable(pdf_files[j])}
    IN /\ Range(pdf_files) = glob_pdf(pdf_dir.files)
       /\ \A i, j \in 1..Len(pdf_files) :
             i < j => StrLess(pdf_files[i].path, pdf_files[j].path)
       /\ Len(results) = Len(pdf_files) - Cardinality(failures)
       /\ Len(results) = Len(ok)
       /\ \A r \in 1..Len(results) :
             /\ results[r].file_path = ok[r].path
             /\ results[r].raw_text = extract_text_from_pdf(ok[r]).text

\* C20 witness: the batch returned after two files, the first processed
\* without error and the second failed
C20_Witness ==
  /\ bpc = "returned"
  /\ Len(pdf_files) = 2
  /\ Processable(pdf_files[1])
  /\ ~Processable(pdf_files[2])
  /\ Len(results) = 1
  /\ results[1].file_path = pdf_files[1].path

====
